---- MODULE Spec2Model ----
(***************************************************************************)
(* Model of the Kumru relay (src/kumru.py): three FastAPI handlers that    *)
(* forward a question or the pages of an uploaded PDF to the Ollama        *)
(* generate endpoint and translate the outcome into an HTTP response.      *)
(*                                                                         *)
(* Text is modelled as a sequence of characters.  A printable ASCII        *)
(* character is the one-character string itself; tab, line feed, form      *)
(* feed and carriage return are "\t", "\n", "\f" and "\r"; every other     *)
(* character is written as Python's ascii() writes it (the dotless i is    *)
(* "\\u0131", the no-break space "\\xa0").  Concatenation of text is \o,   *)
(* so an f-string is the concatenation of its literal parts and its        *)
(* formatted fields.                                                       *)
(*                                                                         *)
(* A handler is one coroutine; it gives up control only at an await: at    *)
(* `await file.read()`, at the __aenter__ and the __aexit__ of             *)
(* `async with httpx.AsyncClient()`, and at `await client.post(...)`.      *)
(* The model has one action for each stretch of a handler between two      *)
(* such points.                                                            *)
(***************************************************************************)
EXTENDS Integers, Sequences, FiniteSets, TLC

(***************************************************************************)
(* Bounds of the model.                                                    *)
(***************************************************************************)
\* Pages of the largest uploaded document of the sequential specification.
MaxPages == 3
\* Requests handled concurrently in the concurrent specification.
NumReqs == 2

Reqs == 1 .. NumReqs

(***************************************************************************)
(* Configuration and literals of the source.                               *)
(***************************************************************************)
MODEL_NAME ==
    << "r", "e", "c", "e", "p", "t", "i", "m", "/", "k", "u", "m", "r", "u", "-", "2",
       "b" >>

OLLAMA_GENERATE_URL ==
    << "h", "t", "t", "p", ":", "/", "/", "o", "l", "l", "a", "m", "a", ":", "1", "1",
       "4", "3", "4", "/", "a", "p", "i", "/", "g", "e", "n", "e", "r", "a", "t", "e" >>

\* timeout=120.0 of every client.post
TIMEOUT == 120

\* f"Sayfa {page_num} icerigi:\n\n{text}\n\nBu sayfadaki metni cikar. ..."
DocsPromptHead ==
    << "S", "a", "y", "f", "a", " " >>

DocsPromptMid ==
    << " ", "i", "\\xe7", "e", "r", "i", "\\u011f", "i", ":", "\n", "\n" >>

DocsPromptTail ==
    << "\n", "\n", "B", "u", " ", "s", "a", "y", "f", "a", "d", "a", "k", "i", " ", "m",
       "e", "t", "n", "i", " ", "\\xe7", "\\u0131", "k", "a", "r", ".", " ", "K", "e",
       "n", "d", "i", "n", " ", "h", "i", "\\xe7", "b", "i", "r", " ", "\\u015f", "e",
       "y", " ", "e", "k", "l", "e", "m", "e", ".", " ", "M", "e", "t", "n", "i", " ",
       "o", "l", "d", "u", "\\u011f", "u", " ", "g", "i", "b", "i", " ", "v", "e", "r",
       ".", " ", "S", "a", "k", "\\u0131", "n", " ", "\\xf6", "z", "e", "t", "l", "e",
       "m", "e", " ", "s", "a", "d", "e", "c", "e", " ", "t", "\\xfc", "m", " ", "m", "e",
       "t", "n", "i", " ", "o", "l", "d", "u", "\\u011f", "u", " ", "g", "i", "b", "i",
       " ", "\\xe7", "\\u0131", "k", "a", "r", ":" >>

\* f"Bu sayfadaki metni cikar:\n\n{text}"
PdfPromptText ==
    << "B", "u", " ", "s", "a", "y", "f", "a", "d", "a", "k", "i", " ", "m", "e", "t",
       "n", "i", " ", "\\xe7", "\\u0131", "k", "a", "r", ":", "\n", "\n" >>

\* the prompt of a page without text
PdfPromptEmpty ==
    << "B", "u", " ", "s", "a", "y", "f", "a", "d", "a", "k", "i", " ", "m", "e", "t",
       "n", "i", " ", "\\xe7", "\\u0131", "k", "a", "r", ".", " ", "S", "a", "y", "f",
       "a", " ", "g", "\\xf6", "r", "\\xfc", "n", "t", "\\xfc", " ", "i", "\\xe7", "e",
       "r", "i", "y", "o", "r", "s", "a", " ", "g", "\\xf6", "r", "\\xfc", "n", "t",
       "\\xfc", "d", "e", "n", " ", "m", "e", "t", "i", "n", " ", "\\xe7", "\\u0131", "k",
       "a", "r", ".", " ", "S", "a", "k", "\\u0131", "n", " ", "\\xf6", "z", "e", "t",
       "l", "e", "m", "e", " ", "s", "a", "d", "e", "c", "e", " ", "b", "u", " ", "s",
       "a", "y", "f", "a", "d", "a", "n", " ", "m", "e", "t", "n", "i", " ", "o", "l",
       "d", "u", "\\u011f", "u", " ", "g", "i", "b", "i", " ", "\\xe7", "\\u0131", "k",
       "a", "r", ".", " ", "E", "\\u011f", "e", "r", " ", "s", "a", "y", "f", "a", " ",
       "b", "i", "r", " ", "g", "\\xf6", "r", "\\xfc", "n", "t", "\\xfc", " ", "i",
       "\\xe7", "e", "r", "i", "y", "o", "r", "s", "a", " ", "v", "e", "y", "a", " ", "m",
       "e", "t", "i", "n", " ", "o", "k", "u", "n", "a", "m", "\\u0131", "y", "o", "r",
       "s", "a", ",", " " >>

\* f"\n\n--- Sayfa {page_num} ---\n{...}"
MarkerHead ==
    << "\n", "\n", "-", "-", "-", " ", "S", "a", "y", "f", "a", " " >>

MarkerTail ==
    << " ", "-", "-", "-", "\n" >>

\* f"(Sayfa {page_num} icin model hatasi: {model_err})"
PlaceholderHead ==
    << "(", "S", "a", "y", "f", "a", " " >>

PlaceholderMid ==
    << " ", "i", "\\xe7", "i", "n", " ", "m", "o", "d", "e", "l", " ", "h", "a", "t", "a",
       "s", "\\u0131", ":", " " >>

PlaceholderTail ==
    << ")" >>

\* f"Ollama service is unavailable: {repr(e)}"
UnavailableDetail ==
    << "O", "l", "l", "a", "m", "a", " ", "s", "e", "r", "v", "i", "c", "e", " ", "i",
       "s", " ", "u", "n", "a", "v", "a", "i", "l", "a", "b", "l", "e", ":", " " >>

\* f"An unexpected error occurred: {str(e)}"
UnexpectedDetail ==
    << "A", "n", " ", "u", "n", "e", "x", "p", "e", "c", "t", "e", "d", " ", "e", "r",
       "r", "o", "r", " ", "o", "c", "c", "u", "r", "r", "e", "d", ":", " " >>

\* f"PDF isleme hatasi: {str(e)}"
PdfErrorDetail ==
    << "P", "D", "F", " ", "i", "\\u015f", "l", "e", "m", "e", " ", "h", "a", "t", "a",
       "s", "\\u0131", ":", " " >>

\* str(None), what an f-string makes of a null
NoneText ==
    << "N", "o", "n", "e" >>

(***************************************************************************)
(* Text helpers: str.strip(), and an integer formatted by an f-string.     *)
(***************************************************************************)
\* the characters str.strip() removes: those for which str.isspace() holds
Whitespace ==
    {"\t", "\n", "\\x0b", "\f", "\r", "\\x1c", "\\x1d", "\\x1e", "\\x1f", " ",
     "\\x85", "\\xa0", "\\u1680", "\\u2000", "\\u2001", "\\u2002", "\\u2003",
     "\\u2004", "\\u2005", "\\u2006", "\\u2007", "\\u2008", "\\u2009", "\\u200a",
     "\\u2028", "\\u2029", "\\u202f", "\\u205f", "\\u3000"}

RECURSIVE lstrip(_)
lstrip(s) == IF s # << >> /\ Head(s) \in Whitespace THEN lstrip(Tail(s)) ELSE s

RECURSIVE rstrip(_)
rstrip(s) ==
    IF s # << >> /\ s[Len(s)] \in Whitespace
    THEN rstrip(SubSeq(s, 1, Len(s) - 1))
    ELSE s

\* str.strip() of page.get_text("text").strip() and of data.get(...).strip()
strip(s) == rstrip(lstrip(s))

Digits == << "0", "1", "2", "3", "4", "5", "6", "7", "8", "9" >>

\* {page_num} inside an f-string: the decimal digits of a natural number
RECURSIVE format_int(_)
format_int(n) ==
    IF n < 10
    THEN << Digits[n + 1] >>
    ELSE format_int(n \div 10) \o << Digits[(n % 10) + 1] >>

(***************************************************************************)
(* The collaborators, as far as the handlers see them.                     *)
(*                                                                         *)
(* A reply to client.post is either an exception raised by httpx           *)
(* (raised # "") or an HTTP response with a status code and a body.  A     *)
(* body is either not JSON or a JSON object; a JSON value is a string or   *)
(* null.  An exception is its class and its message, str(e).  The message  *)
(* texts belong to the libraries and are shortened here.                   *)
(***************************************************************************)
JStr(s) == [type |-> "str", val |-> s]
JNull == [type |-> "null", val |-> << >>]

Exc(cls, msg) == [cls |-> cls, msg |-> msg]

ConnectMsg ==
    << "A", "l", "l", " ", "c", "o", "n", "n", "e", "c", "t", "i", "o", "n", " ", "a",
       "t", "t", "e", "m", "p", "t", "s", " ", "f", "a", "i", "l", "e", "d" >>

ServerErrorHead ==
    << "S", "e", "r", "v", "e", "r", " ", "e", "r", "r", "o", "r", " ", "'" >>

ClientErrorHead ==
    << "C", "l", "i", "e", "n", "t", " ", "e", "r", "r", "o", "r", " ", "'" >>

\* json.JSONDecodeError of response.json() on a body that is not JSON
JSONDecodeMsg ==
    << "E", "x", "p", "e", "c", "t", "i", "n", "g", " ", "v", "a", "l", "u", "e", ":",
       " ", "l", "i", "n", "e", " ", "1", " ", "c", "o", "l", "u", "m", "n", " ", "1",
       " ", "(", "c", "h", "a", "r", " ", "0", ")" >>

\* AttributeError of None.strip()
StripAttrMsg ==
    << "'", "N", "o", "n", "e", "T", "y", "p", "e", "'", " ", "o", "b", "j", "e", "c",
       "t", " ", "h", "a", "s", " ", "n", "o", " ", "a", "t", "t", "r", "i", "b", "u",
       "t", "e", " ", "'", "s", "t", "r", "i", "p", "'" >>

\* pydantic's ValidationError of KumruResponse(kumru_response=None)
ValidationMsg ==
    << "1", " ", "v", "a", "l", "i", "d", "a", "t", "i", "o", "n", " ", "e", "r", "r",
       "o", "r", " ", "f", "o", "r", " ", "K", "u", "m", "r", "u", "R", "e", "s", "p",
       "o", "n", "s", "e" >>

\* the error of fitz.open on bytes that are no PDF
OpenMsg ==
    << "F", "a", "i", "l", "e", "d", " ", "t", "o", " ", "o", "p", "e", "n", " ", "s",
       "t", "r", "e", "a", "m" >>

\* the error of a file.read() that fails
ReadMsg ==
    << "I", "/", "O", " ", "o", "p", "e", "r", "a", "t", "i", "o", "n", " ", "o", "n",
       " ", "c", "l", "o", "s", "e", "d", " ", "f", "i", "l", "e", "." >>

ConnectErrorName ==
    << "C", "o", "n", "n", "e", "c", "t", "E", "r", "r", "o", "r" >>

ReadTimeoutName ==
    << "R", "e", "a", "d", "T", "i", "m", "e", "o", "u", "t" >>

Raised(cls, msg) == [raised |-> cls, msg |-> msg, status_code |-> 0,
                     is_json |-> FALSE, data |-> << >>]
Answer(code, is_json, data) == [raised |-> "", msg |-> << >>, status_code |-> code,
                                is_json |-> is_json, data |-> data]

\* Variant of RequestError: connection failures alone.
RequestErrorNarrow == {"ConnectError"}

\* httpx.RequestError and its subclasses that a post can raise: a connection
\* failure (ConnectError) and a timeout (ReadTimeout, a TimeoutException); both
\* derive from httpx.TransportError, which derives from httpx.RequestError.
\* httpx.HTTPStatusError derives from httpx.HTTPError only.
RequestError == {"ConnectError", "ReadTimeout"}

\* repr(e) of an httpx exception whose message holds no quote: Class('message')
repr(e) ==
    (IF e.cls = "ConnectError" THEN ConnectErrorName ELSE ReadTimeoutName)
        \o << "(", "'" >> \o e.msg \o << "'", ")" >>

\* response.raise_for_status(): HTTPStatusError unless the status is 2xx
is_success(code) == code >= 200 /\ code <= 299

StatusMessage(code) ==
    (IF code >= 500 THEN ServerErrorHead ELSE ClientErrorHead)
        \o format_int(code) \o << "'" >>

\* data.get(key, default) of a JSON object
get(data, key, default) == IF key \in DOMAIN data THEN data[key] ELSE default

\* `await client.post(...)`, `response.raise_for_status()`, `response.json()`:
\* the parsed body, or the exception the three lines raise.
generate(reply) ==
    IF reply.raised # ""
    THEN [ok |-> FALSE, exc |-> Exc(reply.raised, reply.msg), data |-> << >>]
    ELSE IF ~is_success(reply.status_code)
    THEN [ok |-> FALSE, exc |-> Exc("HTTPStatusError", StatusMessage(reply.status_code)),
          data |-> << >>]
    ELSE IF ~reply.is_json
    THEN [ok |-> FALSE, exc |-> Exc("JSONDecodeError", JSONDecodeMsg), data |-> << >>]
    ELSE [ok |-> TRUE, exc |-> Exc("", << >>), data |-> reply.data]

(***************************************************************************)
(* The responses of a handler.                                             *)
(***************************************************************************)
NoResult == [status |-> 0, kumru_response |-> << >>, detail |-> << >>,
             has_body |-> FALSE]

\* return KumruResponse(kumru_response=...): HTTP 200 with the body
KumruResponse(text) == [status |-> 200, kumru_response |-> text, detail |-> << >>,
                        has_body |-> TRUE]

\* raise HTTPException(status_code=..., detail=...)
HTTPException(code, detail) == [status |-> code, kumru_response |-> << >>,
                                detail |-> detail, has_body |-> FALSE]

\* payload = {"model": MODEL_NAME, "prompt": prompt, "stream": False}
Payload(prompt) == [model |-> MODEL_NAME, prompt |-> prompt, stream |-> FALSE]

\* client.post(OLLAMA_GENERATE_URL, json=payload, timeout=120.0), issued while the
\* handler's loop variable page_num has the given value (0 outside a page loop)
Post(n, prompt) == [page_num |-> n, url |-> OLLAMA_GENERATE_URL,
                    json |-> Payload(prompt), timeout |-> TIMEOUT]

(***************************************************************************)
(* Pure parts of the handlers.                                             *)
(***************************************************************************)
EmptyObject == [k \in {} |-> JNull]

\* The way a handler leaves its `async with` block: with a value to return, or
\* with an exception in flight.
Returning(value) == [returned |-> TRUE, value |-> value, exc |-> Exc("", << >>)]
Raising(e) == [returned |-> FALSE, value |-> NoResult, exc |-> e]
NotLeaving == [returned |-> FALSE, value |-> NoResult, exc |-> Exc("", << >>)]

\* Variant of ask_try: the answer stripped as send_pdf_kumru strips it.
ask_try_stripped(reply) ==
    LET g == generate(reply)
        v == get(g.data, "response", JStr(<< >>))
    IN  IF ~g.ok THEN Raising(g.exc)
        ELSE IF v.type = "str" THEN Returning(KumruResponse(strip(v.val)))
        ELSE Raising(Exc("ValidationError", ValidationMsg))

\* the try block of ask_kumru from the reply on: raise_for_status, json, and the
\* KumruResponse, whose kumru_response must be a str
ask_try(reply) ==
    LET g == generate(reply)
        v == get(g.data, "response", JStr(<< >>))
    IN  IF ~g.ok THEN Raising(g.exc)
        ELSE IF v.type = "str" THEN Returning(KumruResponse(v.val))
        ELSE Raising(Exc("ValidationError", ValidationMsg))

\* Variant of ask_except: a single `except Exception` clause.
ask_except_generic(e) == HTTPException(500, UnexpectedDetail \o e.msg)

\* the two except clauses of ask_kumru
ask_except(e) ==
    IF e.cls \in RequestError
    THEN HTTPException(503, UnavailableDetail \o repr(e))
    ELSE HTTPException(500, UnexpectedDetail \o e.msg)

\* Variant of open_ok: a decoder that accepts any bytes as a document without pages.
open_always(f) == TRUE

\* fitz.open(stream=pdf_bytes, filetype="pdf"): the pages, or an error
open_ok(f) == f.decodable

\* the prompt of send_docs_kumru for page n with the stripped text
docs_prompt(n, text) ==
    DocsPromptHead \o format_int(n) \o DocsPromptMid \o text \o DocsPromptTail

\* the prompt of send_pdf_kumru
pdf_prompt(text) == IF text # << >> THEN PdfPromptText \o text ELSE PdfPromptEmpty

\* Variant of marker: the marker in English.
marker_english(n) ==
    << "\n", "\n" >> \o << "-", "-", "-", " ", "P", "a", "g", "e", " " >>
        \o format_int(n) \o MarkerTail

\* f"\n\n--- Sayfa {page_num} ---\n"
marker(n) == MarkerHead \o format_int(n) \o MarkerTail

\* {page_summary} in the f-string of send_docs_kumru: a string as it is, None as "None"
format_value(v) == IF v.type = "str" THEN v.val ELSE NoneText

\* page_summary of send_docs_kumru
page_summary(data) == format_value(get(data, "response", JStr(<< >>)))

\* Variant of page_text: without the except clause's placeholder.
page_text_unguarded(n, reply) ==
    LET g == generate(reply)
        v == get(g.data, "response", JStr(<< >>))
    IN  IF g.ok /\ v.type = "str" THEN strip(v.val) ELSE << >>

\* page_text of send_pdf_kumru: the try block and its except clause
page_text(n, reply) ==
    LET g == generate(reply)
        v == get(g.data, "response", JStr(<< >>))
        model_err == IF ~g.ok THEN g.exc.msg ELSE StripAttrMsg
    IN  IF g.ok /\ v.type = "str"
        THEN strip(v.val)
        ELSE PlaceholderHead \o format_int(n) \o PlaceholderMid \o model_err
                 \o PlaceholderTail

\* Variant of docs_next: no page is skipped.
docs_next_noskip(doc, k) == IF k > Len(doc) THEN 0 ELSE k

\* the loop of send_docs_kumru from page k on: the first page whose stripped text
\* is not empty (`if not text: continue`), 0 when the loop ends
RECURSIVE docs_next(_, _)
docs_next(doc, k) ==
    IF k > Len(doc) THEN 0
    ELSE IF strip(doc[k]) = << >> THEN docs_next(doc, k + 1)
    ELSE k

\* Variant of pdf_next: pages without text are skipped, as send_docs_kumru does.
RECURSIVE pdf_next_skipping(_, _)
pdf_next_skipping(doc, k) ==
    IF k > Len(doc) THEN 0
    ELSE IF strip(doc[k]) = << >> THEN pdf_next_skipping(doc, k + 1)
    ELSE k

\* the loop of send_pdf_kumru from page k on: every page is called
pdf_next(doc, k) == IF k > Len(doc) THEN 0 ELSE k

(***************************************************************************)
(* State.  Every variable is a function of the request; a request is one   *)
(* invocation of a handler, with its own locals and its own client.        *)
(***************************************************************************)
VARIABLES
    pc,             \* where the handler is suspended: "idle" (not yet entered),
                    \* "reading" (await file.read()), "entering" (__aenter__ of
                    \* async with), "awaiting" (await client.post), "closing"
                    \* (__aexit__ of async with), or "done"
    handler,        \* the handler the request was routed to, "" before
    question,       \* request.question of ask_kumru
    file,           \* the upload of the PDF handlers
    pdf_document,   \* the pages fitz.open gave, each its get_text("text")
    page_num,       \* the loop variable page_num
    full_response,  \* the local full_response
    posted,         \* the posts the request's client has issued, in order
    replies,        \* the replies those posts got, in order
    leaving,        \* how the handler leaves its async with block
    result          \* the HTTP response of the request

vars == << pc, handler, question, file, pdf_document, page_num, full_response,
           posted, replies, leaving, result >>

\* uploads whose read fails, and uploads whose bytes are no PDF
Unreadable == [readable |-> FALSE, decodable |-> FALSE, pages |-> << >>]
NotPdf == [readable |-> TRUE, decodable |-> FALSE, pages |-> << >>]
NoFile == Unreadable

Init ==
    /\ pc = [r \in Reqs |-> "idle"]
    /\ handler = [r \in Reqs |-> ""]
    /\ question = [r \in Reqs |-> << >>]
    /\ file = [r \in Reqs |-> NoFile]
    /\ pdf_document = [r \in Reqs |-> << >>]
    /\ page_num = [r \in Reqs |-> 0]
    /\ full_response = [r \in Reqs |-> << >>]
    /\ posted = [r \in Reqs |-> << >>]
    /\ replies = [r \in Reqs |-> << >>]
    /\ leaving = [r \in Reqs |-> NotLeaving]
    /\ result = [r \in Reqs |-> NoResult]

(***************************************************************************)
(* ask_kumru                                                               *)
(***************************************************************************)
\* POST /llm/kumru/ask up to `async with httpx.AsyncClient() as client`
ask_kumru(r, q) ==
    /\ pc[r] = "idle"
    /\ handler' = [handler EXCEPT ![r] = "ask_kumru"]
    /\ question' = [question EXCEPT ![r] = q]
    /\ pc' = [pc EXCEPT ![r] = "entering"]
    /\ UNCHANGED << file, pdf_document, page_num, full_response, posted, replies,
                    leaving, result >>

\* ask_kumru from the client's __aenter__ to `await client.post(...)`
ask_kumru_enter(r) ==
    /\ pc[r] = "entering"
    /\ handler[r] = "ask_kumru"
    /\ posted' = [posted EXCEPT ![r] = Append(@, Post(0, question[r]))]
    /\ pc' = [pc EXCEPT ![r] = "awaiting"]
    /\ UNCHANGED << handler, question, file, pdf_document, page_num, full_response,
                    replies, leaving, result >>

\* ask_kumru from the reply to the client's __aexit__
ask_kumru_reply(r, reply) ==
    /\ pc[r] = "awaiting"
    /\ handler[r] = "ask_kumru"
    /\ replies' = [replies EXCEPT ![r] = Append(@, reply)]
    /\ leaving' = [leaving EXCEPT ![r] = ask_try(reply)]
    /\ pc' = [pc EXCEPT ![r] = "closing"]
    /\ UNCHANGED << handler, question, file, pdf_document, page_num, full_response,
                    posted, result >>

\* ask_kumru from the client's __aexit__ to its return or its HTTPException
ask_kumru_close(r) ==
    /\ pc[r] = "closing"
    /\ handler[r] = "ask_kumru"
    /\ result' = [result EXCEPT ![r] =
                      IF leaving[r].returned THEN leaving[r].value
                      ELSE ask_except(leaving[r].exc)]
    /\ pc' = [pc EXCEPT ![r] = "done"]
    /\ UNCHANGED << handler, question, file, pdf_document, page_num, full_response,
                    posted, replies, leaving >>

(***************************************************************************)
(* send_docs_kumru                                                         *)
(***************************************************************************)
\* the page loop from page k on with the text aggregated so far: post the next
\* page that has text and suspend, or leave the loop and the async with block
docs_loop(r, doc, k, full) ==
    LET n == docs_next(doc, k)
    IN  /\ full_response' = [full_response EXCEPT ![r] = full]
        /\ IF n = 0
           THEN /\ page_num' = [page_num EXCEPT ![r] = Len(doc)]
                /\ leaving' = [leaving EXCEPT ![r] = Returning(KumruResponse(full))]
                /\ pc' = [pc EXCEPT ![r] = "closing"]
                /\ UNCHANGED posted
           ELSE /\ page_num' = [page_num EXCEPT ![r] = n]
                /\ posted' = [posted EXCEPT ![r] =
                                  Append(@, Post(n, docs_prompt(n, strip(doc[n]))))]
                /\ pc' = [pc EXCEPT ![r] = "awaiting"]
                /\ UNCHANGED leaving

\* Variant of docs_failure: the text aggregated so far is returned.
docs_failure_partial(r, e) == KumruResponse(full_response[r])

\* `except Exception as e` of send_docs_kumru: HTTP 500; the local full_response
\* is dropped
docs_failure(r, e) == HTTPException(500, PdfErrorDetail \o e.msg)

\* POST /llm/kumru/send_documents up to `await file.read()`
send_docs_kumru(r, f) ==
    /\ pc[r] = "idle"
    /\ handler' = [handler EXCEPT ![r] = "send_docs_kumru"]
    /\ file' = [file EXCEPT ![r] = f]
    /\ pc' = [pc EXCEPT ![r] = "reading"]
    /\ UNCHANGED << question, pdf_document, page_num, full_response, posted, replies,
                    leaving, result >>

\* send_docs_kumru from the end of file.read() to the client's __aenter__: the
\* read may fail, fitz.open may fail
send_docs_kumru_read(r) ==
    /\ pc[r] = "reading"
    /\ handler[r] = "send_docs_kumru"
    /\ UNCHANGED << handler, question, file, page_num, full_response, posted, replies,
                    leaving >>
    /\ IF ~file[r].readable
       THEN /\ result' = [result EXCEPT ![r] = docs_failure(r, Exc("OSError", ReadMsg))]
            /\ pc' = [pc EXCEPT ![r] = "done"]
            /\ UNCHANGED pdf_document
       ELSE IF ~open_ok(file[r])
       THEN /\ result' = [result EXCEPT ![r] =
                              docs_failure(r, Exc("FileDataError", OpenMsg))]
            /\ pc' = [pc EXCEPT ![r] = "done"]
            /\ UNCHANGED pdf_document
       ELSE /\ pdf_document' = [pdf_document EXCEPT ![r] = file[r].pages]
            /\ pc' = [pc EXCEPT ![r] = "entering"]
            /\ UNCHANGED result

\* send_docs_kumru from the client's __aenter__ to the first post
send_docs_kumru_enter(r) ==
    /\ pc[r] = "entering"
    /\ handler[r] = "send_docs_kumru"
    /\ docs_loop(r, pdf_document[r], 1, << >>)
    /\ UNCHANGED << handler, question, file, pdf_document, replies, result >>

\* send_docs_kumru from a reply to the next post or to the client's __aexit__
send_docs_kumru_reply(r, reply) ==
    /\ pc[r] = "awaiting"
    /\ handler[r] = "send_docs_kumru"
    /\ replies' = [replies EXCEPT ![r] = Append(@, reply)]
    /\ UNCHANGED << handler, question, file, pdf_document, result >>
    /\ LET g == generate(reply)
       IN  IF g.ok
           THEN docs_loop(r, pdf_document[r], page_num[r] + 1,
                          full_response[r] \o marker(page_num[r])
                              \o page_summary(g.data))
           ELSE /\ leaving' = [leaving EXCEPT ![r] = Raising(g.exc)]
                /\ pc' = [pc EXCEPT ![r] = "closing"]
                /\ UNCHANGED << page_num, full_response, posted >>

\* send_docs_kumru from the client's __aexit__ to its return or its HTTPException
send_docs_kumru_close(r) ==
    /\ pc[r] = "closing"
    /\ handler[r] = "send_docs_kumru"
    /\ result' = [result EXCEPT ![r] =
                      IF leaving[r].returned THEN leaving[r].value
                      ELSE docs_failure(r, leaving[r].exc)]
    /\ pc' = [pc EXCEPT ![r] = "done"]
    /\ UNCHANGED << handler, question, file, pdf_document, page_num, full_response,
                    posted, replies, leaving >>

(***************************************************************************)
(* send_pdf_kumru                                                          *)
(***************************************************************************)
\* Variant of pdf_loop: full_response is one module-level variable, shared by
\* the requests.
pdf_loop_shared(r, doc, k, full) ==
    LET n == pdf_next(doc, k)
    IN  /\ full_response' = [s \in Reqs |-> full]
        /\ IF n = 0
           THEN /\ page_num' = [page_num EXCEPT ![r] = Len(doc)]
                /\ leaving' = [leaving EXCEPT ![r] = Returning(KumruResponse(full))]
                /\ pc' = [pc EXCEPT ![r] = "closing"]
                /\ UNCHANGED posted
           ELSE /\ page_num' = [page_num EXCEPT ![r] = n]
                /\ posted' = [posted EXCEPT ![r] =
                                  Append(@, Post(n, pdf_prompt(strip(doc[n]))))]
                /\ pc' = [pc EXCEPT ![r] = "awaiting"]
                /\ UNCHANGED leaving

\* the page loop from page k on with the text aggregated so far: post the next
\* page and suspend, or leave the loop and the async with block
pdf_loop(r, doc, k, full) ==
    LET n == pdf_next(doc, k)
    IN  /\ full_response' = [full_response EXCEPT ![r] = full]
        /\ IF n = 0
           THEN /\ page_num' = [page_num EXCEPT ![r] = Len(doc)]
                /\ leaving' = [leaving EXCEPT ![r] = Returning(KumruResponse(full))]
                /\ pc' = [pc EXCEPT ![r] = "closing"]
                /\ UNCHANGED posted
           ELSE /\ page_num' = [page_num EXCEPT ![r] = n]
                /\ posted' = [posted EXCEPT ![r] =
                                  Append(@, Post(n, pdf_prompt(strip(doc[n]))))]
                /\ pc' = [pc EXCEPT ![r] = "awaiting"]
                /\ UNCHANGED leaving

\* the outer `except Exception as e` of send_pdf_kumru
pdf_failure(r, e) == HTTPException(500, PdfErrorDetail \o e.msg)

\* POST /llm/kumru/send_pdf up to `await file.read()`
send_pdf_kumru(r, f) ==
    /\ pc[r] = "idle"
    /\ handler' = [handler EXCEPT ![r] = "send_pdf_kumru"]
    /\ file' = [file EXCEPT ![r] = f]
    /\ pc' = [pc EXCEPT ![r] = "reading"]
    /\ UNCHANGED << question, pdf_document, page_num, full_response, posted, replies,
                    leaving, result >>

\* send_pdf_kumru from the end of file.read() to the client's __aenter__
send_pdf_kumru_read(r) ==
    /\ pc[r] = "reading"
    /\ handler[r] = "send_pdf_kumru"
    /\ UNCHANGED << handler, question, file, page_num, full_response, posted, replies,
                    leaving >>
    /\ IF ~file[r].readable
       THEN /\ result' = [result EXCEPT ![r] = pdf_failure(r, Exc("OSError", ReadMsg))]
            /\ pc' = [pc EXCEPT ![r] = "done"]
            /\ UNCHANGED pdf_document
       ELSE IF ~open_ok(file[r])
       THEN /\ result' = [result EXCEPT ![r] =
                              pdf_failure(r, Exc("FileDataError", OpenMsg))]
            /\ pc' = [pc EXCEPT ![r] = "done"]
            /\ UNCHANGED pdf_document
       ELSE /\ pdf_document' = [pdf_document EXCEPT ![r] = file[r].pages]
            /\ pc' = [pc EXCEPT ![r] = "entering"]
            /\ UNCHANGED result

\* send_pdf_kumru from the client's __aenter__ to the first post
send_pdf_kumru_enter(r) ==
    /\ pc[r] = "entering"
    /\ handler[r] = "send_pdf_kumru"
    /\ pdf_loop(r, pdf_document[r], 1, << >>)
    /\ UNCHANGED << handler, question, file, pdf_document, replies, result >>

\* send_pdf_kumru from a reply to the next post or to the client's __aexit__
send_pdf_kumru_reply(r, reply) ==
    /\ pc[r] = "awaiting"
    /\ handler[r] = "send_pdf_kumru"
    /\ replies' = [replies EXCEPT ![r] = Append(@, reply)]
    /\ UNCHANGED << handler, question, file, pdf_document, result >>
    /\ pdf_loop(r, pdf_document[r], page_num[r] + 1,
                full_response[r] \o marker(page_num[r])
                    \o page_text(page_num[r], reply))

\* send_pdf_kumru from the client's __aexit__ to its return
send_pdf_kumru_close(r) ==
    /\ pc[r] = "closing"
    /\ handler[r] = "send_pdf_kumru"
    /\ result' = [result EXCEPT ![r] =
                      IF leaving[r].returned THEN leaving[r].value
                      ELSE pdf_failure(r, leaving[r].exc)]
    /\ pc' = [pc EXCEPT ![r] = "done"]
    /\ UNCHANGED << handler, question, file, pdf_document, page_num, full_response,
                    posted, replies, leaving >>

(***************************************************************************)
(* Inputs and specifications.                                              *)
(***************************************************************************)
Hi ==
    << "H", "i", "?" >>

\* a question with whitespace around it
PaddedQ ==
    << " ", "x", "\r", "\n" >>

\* get_text("text") of a page without text, and of a page with text
Blank ==
    << " ", "\r", "\n" >>

PaddedWorld ==
    << "\\xa0", "W", "o", "r", "l", "d", "\f" >>

\* two outputs of the model
PaddedOut ==
    << "\\x0b", "A", "\r", "\n" >>

PlainOut ==
    << "B" >>

Questions == {<< >>, Hi, PaddedQ}

PageTexts == {Blank, PaddedWorld}

RECURSIVE Documents(_, _)
Documents(texts, len) ==
    IF len = 0 THEN {<< >>}
    ELSE {Append(d, t) : d \in Documents(texts, len - 1), t \in texts}

\* uploads: one whose read fails, bytes that are no PDF, and PDFs of 1 .. len pages
Uploads(texts, len) ==
    {Unreadable, NotPdf}
        \cup {[readable |-> TRUE, decodable |-> TRUE, pages |-> d] :
                  d \in UNION {Documents(texts, l) : l \in 1 .. len}}

ConnectError == Raised("ConnectError", ConnectMsg)
ReadTimeout == Raised("ReadTimeout", << >>)
ServerError == Answer(500, FALSE, EmptyObject)
NotJson == Answer(200, FALSE, EmptyObject)
NoField == Answer(200, TRUE, EmptyObject)
NullField == Answer(200, TRUE, [response |-> JNull])
Generated(text) == Answer(200, TRUE, [response |-> JStr(text)])

Failures == {ConnectError, ReadTimeout, ServerError, NotJson}

Replies == Failures \cup {NoField, NullField, Generated(PaddedOut), Generated(PlainOut)}

\* one request at a time, every input and every reply
Next ==
    \/ \E q \in Questions : ask_kumru(1, q)
    \/ ask_kumru_enter(1)
    \/ \E reply \in Replies : ask_kumru_reply(1, reply)
    \/ ask_kumru_close(1)
    \/ \E f \in Uploads(PageTexts, MaxPages) : send_docs_kumru(1, f)
    \/ send_docs_kumru_read(1)
    \/ send_docs_kumru_enter(1)
    \/ \E reply \in Replies : send_docs_kumru_reply(1, reply)
    \/ send_docs_kumru_close(1)
    \/ \E f \in Uploads(PageTexts, MaxPages) : send_pdf_kumru(1, f)
    \/ send_pdf_kumru_read(1)
    \/ send_pdf_kumru_enter(1)
    \/ \E reply \in Replies : send_pdf_kumru_reply(1, reply)
    \/ send_pdf_kumru_close(1)

Spec == Init /\ [][Next]_vars

\* several requests handled concurrently by the event loop: any request that is
\* suspended or not yet started may take the next step
ConcUploads == Uploads({PaddedWorld}, 2)
ConcReplies == {ConnectError, Generated(PlainOut)}

NextConc ==
    \E r \in Reqs :
        \/ ask_kumru(r, Hi)
        \/ ask_kumru_enter(r)
        \/ \E reply \in ConcReplies : ask_kumru_reply(r, reply)
        \/ ask_kumru_close(r)
        \/ \E f \in ConcUploads : send_docs_kumru(r, f)
        \/ send_docs_kumru_read(r)
        \/ send_docs_kumru_enter(r)
        \/ \E reply \in ConcReplies : send_docs_kumru_reply(r, reply)
        \/ send_docs_kumru_close(r)
        \/ \E f \in ConcUploads : send_pdf_kumru(r, f)
        \/ send_pdf_kumru_read(r)
        \/ send_pdf_kumru_enter(r)
        \/ \E reply \in ConcReplies : send_pdf_kumru_reply(r, reply)
        \/ send_pdf_kumru_close(r)

SpecConc == Init /\ [][NextConc]_vars

(***************************************************************************)
(* Vocabulary of the properties.  These definitions read the state as a    *)
(* client and the inference endpoint see it: the text of the response,     *)
(* the posts received and the replies given.                               *)
(***************************************************************************)
Min(S) == CHOOSE x \in S : \A y \in S : x <= y
Max(S) == CHOOSE x \in S : \A y \in S : x >= y

\* the positions at which pat occurs in s
Occurrences(pat, s) ==
    IF pat = << >> THEN 1 .. (Len(s) + 1)
    ELSE {i \in 1 .. (Len(s) - Len(pat) + 1) :
              s[i] = pat[1] /\ SubSeq(s, i, i + Len(pat) - 1) = pat}

Contains(pat, s) == Occurrences(pat, s) # {}

\* s without its leading and trailing whitespace
Trimmed(s) ==
    LET black == {i \in 1 .. Len(s) : s[i] \notin Whitespace}
    IN  IF black = {} THEN << >> ELSE SubSeq(s, Min(black), Max(black))

SayfaMarkerHead ==
    << "-", "-", "-", " ", "S", "a", "y", "f", "a", " " >>

PageMarkerHead ==
    << "-", "-", "-", " ", "P", "a", "g", "e", " " >>

MarkerEnd ==
    << " ", "-", "-", "-" >>

\* the page marker of the source, and the page marker as the specification words it
SayfaMarker(n) == SayfaMarkerHead \o format_int(n) \o MarkerEnd
PageMarker(n) == PageMarkerHead \o format_int(n) \o MarkerEnd

\* a marker is the marker head at one of the positions `heads`, the page number
\* and the marker end
Heads(t) == Occurrences(SayfaMarkerHead, t)
MarkerAt(t, i, n) == SubSeq(t, i, i + Len(SayfaMarker(n)) - 1) = SayfaMarker(n)
MarkerPos(t, heads, n) == CHOOSE i \in heads : MarkerAt(t, i, n)

\* t holds one marker for each page of `pages`, no other marker, and the markers
\* stand in ascending page order
MarkerLayout(t, heads, pages) ==
    /\ Cardinality(heads) = Cardinality(pages)
    /\ \A n \in pages : Cardinality({i \in heads : MarkerAt(t, i, n)}) = 1
    /\ \A m, n \in pages : m < n => MarkerPos(t, heads, m) < MarkerPos(t, heads, n)

\* the text of page n in t: from the line after its marker up to the blank line
\* before the next marker, or to the end
Section(t, heads, n) ==
    LET p == MarkerPos(t, heads, n)
        later == {i \in heads : i > p}
    IN  SubSeq(t, p + Len(SayfaMarker(n)) + 1,
               IF later = {} THEN Len(t) ELSE Min(later) - 3)

\* the pages of a document that have text
HasText(page) == \E i \in 1 .. Len(page) : page[i] \notin Whitespace
PagesWithText(doc) == {n \in 1 .. Len(doc) : HasText(doc[n])}

PagesPosted(r) == [i \in 1 .. Len(posted[r]) |-> posted[r][i].page_num]
Ascending(s) == \A i, j \in 1 .. Len(s) : i < j => s[i] < s[j]
Range(s) == {s[i] : i \in 1 .. Len(s)}

\* a call that failed: no connection, a timeout, a non-2xx status, a body that is
\* not JSON
Unreachable(reply) == reply.raised = "ConnectError"
TimedOut(reply) == reply.raised = "ReadTimeout"
BadStatus(reply) ==
    reply.raised = "" /\ (reply.status_code < 200 \/ reply.status_code > 299)
Malformed(reply) == reply.raised = "" /\ ~BadStatus(reply) /\ ~reply.is_json
CallFailed(reply) ==
    Unreachable(reply) \/ TimedOut(reply) \/ BadStatus(reply) \/ Malformed(reply)

\* a call that succeeded: a 2xx JSON object whose `response`, when present, is text
CallSucceeded(reply) ==
    /\ ~CallFailed(reply)
    /\ "response" \in DOMAIN reply.data => reply.data["response"].type = "str"

\* the `response` field of a call that succeeded, empty when absent
Output(reply) ==
    IF "response" \in DOMAIN reply.data THEN reply.data["response"].val ELSE << >>

\* the description of a failed call
Reason(reply) ==
    IF reply.raised # "" THEN reply.msg
    ELSE IF BadStatus(reply) THEN format_int(reply.status_code)
    ELSE JSONDecodeMsg

Done(r, h) == pc[r] = "done" /\ handler[r] = h
Succeeded(r) == result[r].status = 200 /\ result[r].has_body
\* an error response: the status, a detail string and no kumru_response
Errored(r, code) ==
    result[r].status = code /\ ~result[r].has_body /\ result[r].detail # << >>

(***************************************************************************)
(* C1  send_pdf_kumru isolates the failure of a page.                      *)
(***************************************************************************)
\* the text expected for a page whose call succeeded: the output as it came, or
\* the output without its leading and trailing whitespace
Expected(trimmed, reply) ==
    IF trimmed THEN Trimmed(Output(reply)) ELSE Output(reply)

\* The shape of C1, for either reading of the text of a page whose call succeeded.
PdfIsolation(trimmed) ==
    \A r \in Reqs :
        (Done(r, "send_pdf_kumru") /\ file[r].decodable) =>
            LET N == Len(file[r].pages)
                t == result[r].kumru_response
                heads == Heads(t)
            IN  /\ Succeeded(r)
                /\ MarkerLayout(t, heads, 1 .. N)
                /\ PagesPosted(r) = [n \in 1 .. N |-> n]
                /\ Len(replies[r]) = N
                /\ \A n \in 1 .. N :
                       LET text == Section(t, heads, n)
                       IN  /\ CallFailed(replies[r][n]) =>
                                  /\ Contains(format_int(n), text)
                                  /\ Contains(Reason(replies[r][n]), text)
                           /\ CallSucceeded(replies[r][n]) =>
                                  text = Expected(trimmed, replies[r][n])

\* C1 as stated: a send_pdf request over N pages ends in a success response with
\* N markers in ascending order whatever calls fail; a failed page's text is a
\* placeholder with the page number and the reason, every other page's text is
\* the model's output for the page, and the pages after a failed one are called.
C1_AsStated == PdfIsolation(FALSE)

\* C1 as amended: the same, the text of a page whose call succeeded being the
\* model's output without its leading and trailing whitespace.
C1_PdfFailureIsolation == PdfIsolation(TRUE)

\* C1: three pages, the call of page 2 failed, page 3 was called and answered.
C1_Witness ==
    /\ Done(1, "send_pdf_kumru")
    /\ Len(file[1].pages) = 3
    /\ CallSucceeded(replies[1][1])
    /\ CallFailed(replies[1][2])
    /\ replies[1][3] = Generated(PaddedOut)

(***************************************************************************)
(* C2  send_docs_kumru aborts on the first failed call.                    *)
(***************************************************************************)
\* C2: once the call of a page k has failed in send_docs, the failed call is the
\* last call the request issues, the request returns no kumru_response, and it
\* ends in HTTP 500 with a detail.
C2_DocsAbortOnFailure ==
    \A r \in Reqs :
        handler[r] = "send_docs_kumru" =>
            \A k \in 1 .. Len(replies[r]) :
                CallFailed(replies[r][k]) =>
                    /\ pc[r] \in {"closing", "done"}
                    /\ Len(posted[r]) = k
                    /\ ~result[r].has_body
                    /\ pc[r] = "done" => Errored(r, 500)

\* C2: the second call of a document failed after the first had succeeded, and
\* a page with text follows the failed one.
C2_Witness ==
    /\ Done(1, "send_docs_kumru")
    /\ Len(replies[1]) = 2
    /\ CallSucceeded(replies[1][1])
    /\ CallFailed(replies[1][2])
    /\ full_response[1] # << >>
    /\ \E n \in PagesWithText(file[1].pages) : n > posted[1][2].page_num

(***************************************************************************)
(* C3  send_docs_kumru calls the pages with text, and only those.          *)
(***************************************************************************)
\* C3: when every call of a send_docs request succeeds, the calls are those of
\* the pages whose text is not empty after stripping, in ascending order, and
\* the result has a marker for each of those pages, none for another page, in
\* ascending order of the 1-based page number.
C3_DocsSkipsEmptyPages ==
    \A r \in Reqs :
        (/\ Done(r, "send_docs_kumru")
         /\ file[r].decodable
         /\ \A k \in 1 .. Len(replies[r]) : CallSucceeded(replies[r][k])) =>
            LET pages == PagesWithText(file[r].pages)
                t == result[r].kumru_response
                heads == Heads(t)
            IN  /\ Succeeded(r)
                /\ Len(posted[r]) = Cardinality(pages)
                /\ Ascending(PagesPosted(r))
                /\ Range(PagesPosted(r)) = pages
                /\ MarkerLayout(t, heads, pages)
                /\ \A k \in 1 .. Len(replies[r]) :
                       Section(t, heads, posted[r][k].page_num) = Output(replies[r][k])

\* C3: pages [empty, text, empty]: one call, for page 2, which succeeded.
C3_Witness ==
    /\ Done(1, "send_docs_kumru")
    /\ file[1].pages = << Blank, PaddedWorld, Blank >>
    /\ Len(replies[1]) = 1
    /\ CallSucceeded(replies[1][1])
    /\ Succeeded(1)

(***************************************************************************)
(* C4  send_pdf_kumru calls every page once.                               *)
(***************************************************************************)
\* C4: a send_pdf request over N pages issues exactly one call for each page,
\* pages without text included and whatever calls fail, and the result has
\* exactly the markers 1 .. N in ascending order.
C4_PdfCallsEveryPage ==
    \A r \in Reqs :
        (handler[r] = "send_pdf_kumru" /\ file[r].decodable) =>
            LET N == Len(file[r].pages)
            IN  /\ Ascending(PagesPosted(r))
                /\ Range(PagesPosted(r)) = 1 .. Len(posted[r])
                /\ Len(posted[r]) <= N
                /\ pc[r] = "done" =>
                       /\ Len(posted[r]) = N
                       /\ MarkerLayout(result[r].kumru_response,
                                       Heads(result[r].kumru_response), 1 .. N)

\* C4: a document with a page without text and a failed call has ended.
C4_Witness ==
    /\ Done(1, "send_pdf_kumru")
    /\ Len(file[1].pages) = 3
    /\ ~HasText(file[1].pages[2])
    /\ HasText(file[1].pages[3])
    /\ CallFailed(replies[1][1])

(***************************************************************************)
(* C5  ask_kumru relays the question and the answer unchanged.             *)
(***************************************************************************)
\* C5: an ask request issues exactly one call, whose body holds the configured
\* model name, the question unchanged as prompt and stream = false; when the
\* call succeeds the returned kumru_response is the call's `response` field as
\* it came, and the empty string when the field is absent.
C5_AskRelaysVerbatim ==
    \A r \in Reqs :
        handler[r] = "ask_kumru" =>
            /\ Len(posted[r]) = (IF pc[r] = "entering" THEN 0 ELSE 1)
            /\ \A k \in 1 .. Len(posted[r]) :
                   /\ posted[r][k].url = OLLAMA_GENERATE_URL
                   /\ posted[r][k].json =
                          [model |-> MODEL_NAME, prompt |-> question[r],
                           stream |-> FALSE]
            /\ (pc[r] = "done" /\ CallSucceeded(replies[r][1])) =>
                   /\ Succeeded(r)
                   /\ result[r].kumru_response = Output(replies[r][1])

\* C5: a question and an answer, both with surrounding whitespace, relayed.
C5_Witness ==
    /\ Done(1, "ask_kumru")
    /\ question[1] = PaddedQ
    /\ replies[1] = << Generated(PaddedOut) >>
    /\ Succeeded(1)

(***************************************************************************)
(* C6  ask_kumru: 503 when unreachable, 500 on a non-2xx status.           *)
(***************************************************************************)
\* C6: an ask request whose call found the endpoint unreachable ends in HTTP
\* 503, one whose call got a non-2xx status ends in HTTP 500; neither returns a
\* kumru_response, and the call is not issued again.
C6_AskErrorStatus ==
    \A r \in Reqs :
        Done(r, "ask_kumru") =>
            /\ Unreachable(replies[r][1]) => Errored(r, 503)
            /\ BadStatus(replies[r][1]) => Errored(r, 500)
            /\ (Unreachable(replies[r][1]) \/ BadStatus(replies[r][1])) =>
                   Len(posted[r]) = 1 /\ Len(replies[r]) = 1

\* C6: an ask request has ended in 503 after a connection failure.
C6_Witness ==
    /\ Done(1, "ask_kumru")
    /\ replies[1] = << ConnectError >>
    /\ result[1].status = 503

(***************************************************************************)
(* C7  ask_kumru: which failures end in 500.                               *)
(***************************************************************************)
\* C7 as stated: a timeout, a malformed body and a non-2xx status each end an
\* ask request in HTTP 500 carrying the description of the failure, never in
\* HTTP 503.
C7_AsStated ==
    \A r \in Reqs :
        (/\ Done(r, "ask_kumru")
         /\ \/ TimedOut(replies[r][1])
            \/ Malformed(replies[r][1])
            \/ BadStatus(replies[r][1])) =>
            /\ Errored(r, 500)
            /\ Contains(Reason(replies[r][1]), result[r].detail)

\* C7 as amended: a malformed body and a non-2xx status each end an ask request
\* in HTTP 500 carrying the description of the failure; a timeout is an
\* httpx.RequestError like a connection failure and ends the request in HTTP 503.
C7_AskOtherFailures ==
    \A r \in Reqs :
        Done(r, "ask_kumru") =>
            /\ (Malformed(replies[r][1]) \/ BadStatus(replies[r][1])) =>
                   /\ Errored(r, 500)
                   /\ Contains(Reason(replies[r][1]), result[r].detail)
            /\ TimedOut(replies[r][1]) =>
                   Errored(r, 503)

\* C7: an ask request whose call timed out has ended in 503.
C7_Witness ==
    /\ Done(1, "ask_kumru")
    /\ replies[1] = << ReadTimeout >>
    /\ result[1].status = 503

(***************************************************************************)
(* C8  The page marker.                                                    *)
(***************************************************************************)
\* the pages that contribute to the result of a request that succeeded
Contributing(r) == Range(PagesPosted(r))

PdfHandlers == {"send_docs_kumru", "send_pdf_kumru"}

\* the output of the k-th call as the handler h shows it, when the call succeeded
Shown(h, reply) ==
    IF ~CallSucceeded(reply) THEN << >>
    ELSE IF h = "send_docs_kumru" THEN Output(reply)
    ELSE Trimmed(Output(reply))

\* The shape of C8, for the marker as the specification words it (english) or as
\* the source writes it.
MarkerPrefixes(english) ==
    \A r \in Reqs :
        (pc[r] = "done" /\ handler[r] \in PdfHandlers /\ Succeeded(r)) =>
            \A k \in 1 .. Len(posted[r]) :
                Contains((IF english THEN PageMarker(posted[r][k].page_num)
                                     ELSE SayfaMarker(posted[r][k].page_num))
                             \o << "\n" >>
                             \o Shown(handler[r], replies[r][k]),
                         result[r].kumru_response)

\* C8 as stated: in the result of both PDF endpoints the output of every page N
\* that contributes is prefixed by the literal marker `--- Page N ---`.
C8_AsStated == MarkerPrefixes(TRUE)

\* C8 as amended: in the result of both PDF endpoints the output of every page N
\* that contributes is prefixed by the literal marker `--- Sayfa N ---`, N the
\* 1-based page number.
C8_SayfaMarker == MarkerPrefixes(FALSE)

\* C8: a send_docs result with the outputs of pages 2 and 3.
C8_Witness ==
    /\ Done(1, "send_docs_kumru")
    /\ Succeeded(1)
    /\ Contributing(1) = {2, 3}
    /\ replies[1][2] = Generated(PaddedOut)

(***************************************************************************)
(* C9  Bytes that are no PDF.                                              *)
(***************************************************************************)
\* C9: on both PDF endpoints upload bytes that cannot be decoded as a PDF end
\* the request in HTTP 500 with a detail string, without kumru_response and
\* without any call to the inference endpoint.
C9_DecodeFailure ==
    \A r \in Reqs :
        (handler[r] \in PdfHandlers /\ file[r].readable /\ ~file[r].decodable) =>
            /\ pc[r] \in {"reading", "done"}
            /\ posted[r] = << >>
            /\ replies[r] = << >>
            /\ ~result[r].has_body
            /\ pc[r] = "done" => Errored(r, 500)

\* C9: a send_pdf request with bytes that are no PDF has ended.
C9_Witness ==
    /\ Done(1, "send_pdf_kumru")
    /\ file[1] = NotPdf
    /\ result[1].status = 500

(***************************************************************************)
(* C10  Calls of one request are sequential; requests share nothing.       *)
(***************************************************************************)
InFlight(r) == Len(posted[r]) - Len(replies[r])

OneInFlight ==
    \A r \in Reqs :
        /\ InFlight(r) \in {0, 1}
        /\ InFlight(r) = 1 <=> pc[r] = "awaiting"
        /\ handler[r] \in PdfHandlers => Ascending(PagesPosted(r))

StateOf(r) ==
    << pc[r], handler[r], question[r], file[r], pdf_document[r], page_num[r],
       full_response[r], posted[r], replies[r], leaving[r], result[r] >>

SequentialStep ==
    \A r \in Reqs :
        /\ posted'[r] # posted[r] =>
               /\ Len(posted'[r]) = Len(posted[r]) + 1
               /\ Len(replies'[r]) = Len(posted[r])
        /\ StateOf(r)' # StateOf(r) =>
               \A s \in Reqs \ {r} : StateOf(s)' = StateOf(s)

\* C10: with several requests handled concurrently, each request has at most one
\* call in flight, issues its calls in ascending page order, issues a call only
\* after every earlier call of the request has been answered or has failed, and
\* a step of one request changes nothing of another request.
C10_SequentialCalls == []OneInFlight /\ [][SequentialStep]_vars

\* C10: two requests are suspended in a call at once, the first in the call of
\* its second page.
C10_Witness ==
    /\ pc[1] = "awaiting" /\ handler[1] = "send_pdf_kumru"
    /\ pc[2] = "awaiting" /\ handler[2] = "send_docs_kumru"
    /\ PagesPosted(1) = << 1, 2 >>
    /\ Len(replies[2]) = 1

====
